---------------------------- MODULE Spec2Model ----------------------------
(***************************************************************************)
(* WizardCLI: the command registry (CLI.command), the dispatcher           *)
(* (CLI.exec, CLI.__decode) and the read-resolve-dispatch loop (CLI.run)   *)
(* of src/WizardCLI/core.py.                                               *)
(*                                                                         *)
(* A Python str is a sequence of one-character strings, so that lower(),   *)
(* replace(), startswith(), slicing and strip() are computed, not assumed. *)
(* None and "" are both the empty sequence where the code only tests the   *)
(* value for truth (name, doc).                                            *)
(***************************************************************************)
EXTENDS Integers, Sequences, FiniteSets, TLC

VARIABLES
    cmds,       \* CLI.__cmd: key -> command dict | canonical name (alias entry)
    nregs,      \* number of CLI.command registrations made after construction
    state,      \* "Setup" before cli.run(), then the position of CLI.run:
                \* "Looping" (top of the loop), "Prompting" (in input()), "Stopped"
    input,      \* the line input() returned in the last cycle of CLI.run
    entry,      \* the token list of the last line read by CLI.run
    out,        \* what the last cycle of CLI.run printed, in order
    calls,      \* the handler bodies the last cycle started, with their kwargs
    path,       \* CLI.path
    tasks,      \* File.__tasks: "rename", "move" -> task | None, "write" -> list
    running,    \* File.__running
    mpc,        \* the thread that uses the File: its position in File.__newt
    wpc,        \* the threads File.__newt started: their position in File.__run
    nsched,     \* number of tasks scheduled so far; a task is named by its rank
    done        \* the tasks File.__run called, in order

clivars == <<cmds, nregs, state, input, entry, out, calls, path>>

filevars == <<tasks, running, mpc, wpc, nsched, done>>

vars == <<cmds, nregs, state, input, entry, out, calls, path,
          tasks, running, mpc, wpc, nsched, done>>

----------------------------------------------------------------------------
(* Bounds of the model *)

\* registrations made after construction
MaxRegs == 2
\* argument tokens after the command token, registry-centred specification
MaxArgs == 1
\* argument tokens after the command token, dispatch-centred specification
MaxArgsExec == 3
\* parameters of a handler, registration-centred specification
MaxParams == 3
\* characters of an input line, tokenizing-centred specification
MaxLine == 5
\* the scheduling calls made on one File
MaxTasks == 3

----------------------------------------------------------------------------
(* str *)

UpperAlpha == <<"A","B","C","D","E","F","G","H","I","J","K","L","M",
                "N","O","P","Q","R","S","T","U","V","W","X","Y","Z">>
LowerAlpha == <<"a","b","c","d","e","f","g","h","i","j","k","l","m",
                "n","o","p","q","r","s","t","u","v","w","x","y","z">>

\* one character of str.lower()
LowerChar(c) ==
    IF \E i \in 1..26 : UpperAlpha[i] = c
    THEN LowerAlpha[CHOOSE i \in 1..26 : UpperAlpha[i] = c]
    ELSE c

\* str.lower()
Lower(s) == [i \in 1..Len(s) |-> LowerChar(s[i])]

\* str.replace(" ", "_")
ReplaceSpace(s) == [i \in 1..Len(s) |-> IF s[i] = " " THEN "_" ELSE s[i]]

\* str.startswith(p)
StartsWith(s, p) == Len(s) >= Len(p) /\ SubSeq(s, 1, Len(p)) = p

\* s[k:] for k >= 0
From(s, k) == SubSeq(s, k + 1, Len(s))

RECURSIVE LStrip(_, _)
LStrip(s, chars) ==
    IF s # <<>> /\ Head(s) \in chars THEN LStrip(Tail(s), chars) ELSE s

RECURSIVE RStrip(_, _)
RStrip(s, chars) ==
    IF s # <<>> /\ s[Len(s)] \in chars
    THEN RStrip(SubSeq(s, 1, Len(s) - 1), chars) ELSE s

\* str.strip(chars)
Strip(s, chars) == RStrip(LStrip(s, chars), chars)

\* [f(x) for x in list]
MapSeq(s, Op(_)) == [i \in 1..Len(s) |-> Op(s[i])]

RECURSIVE Concat(_)
\* "".join(list)
Concat(ss) == IF ss = <<>> THEN <<>> ELSE Head(ss) \o Concat(Tail(ss))

RECURSIVE Join(_, _)
\* sep.join(list)
Join(sep, ss) ==
    IF ss = <<>> THEN <<>>
    ELSE IF Len(ss) = 1 THEN ss[1]
    ELSE ss[1] \o sep \o Join(sep, Tail(ss))

----------------------------------------------------------------------------
(* Python values that reach a handler: str, int, float, bool, None *)

StrV(s)  == [t |-> "str",   n |-> 0, s |-> s]
IntV(n)  == [t |-> "int",   n |-> n, s |-> <<>>]
FloatV(n) == [t |-> "float", n |-> n, s |-> <<>>]
BoolV(b) == [t |-> "bool",  n |-> IF b THEN 1 ELSE 0, s |-> <<>>]
NoneV    == [t |-> "None",  n |-> 0, s |-> <<>>]

Digits == <<"0","1","2","3","4","5","6","7","8","9">>
IsDigit(c) == \E i \in 1..10 : Digits[i] = c
DigitVal(c) == (CHOOSE i \in 1..10 : Digits[i] = c) - 1

RECURSIVE DigitsVal(_, _)
DigitsVal(s, acc) ==
    IF s = <<>> THEN acc ELSE DigitsVal(Tail(s), 10 * acc + DigitVal(Head(s)))

\* the literal int() and float() accept: an optional sign and decimal digits
IsNumeral(s) ==
    LET body == IF s # <<>> /\ Head(s) \in {"-", "+"} THEN Tail(s) ELSE s
    IN  body # <<>> /\ \A i \in 1..Len(body) : IsDigit(body[i])

NumeralVal(s) ==
    IF Head(s) = "-" THEN 0 - DigitsVal(Tail(s), 0)
    ELSE IF Head(s) = "+" THEN DigitsVal(Tail(s), 0)
    ELSE DigitsVal(s, 0)

Raised(e) == [ok |-> FALSE, val |-> NoneV, exc |-> e]
Returned(v) == [ok |-> TRUE, val |-> v, exc |-> "none"]

\* member(value): the call of a class on the raw token
Construct(class, s) ==
    CASE class = "int"   -> IF IsNumeral(s) THEN Returned(IntV(NumeralVal(s)))
                            ELSE Raised("ValueError: invalid literal for int()")
      [] class = "float" -> IF IsNumeral(s) THEN Returned(FloatV(NumeralVal(s)))
                            ELSE Raised("ValueError: could not convert string to float")
      [] class = "bool"  -> Returned(BoolV(s # <<>>))
      [] OTHER           -> Returned(StrV(s))

----------------------------------------------------------------------------
(* Annotations: inspect.Signature.empty, a class, or typing.Union[...] *)

Empty == [kind |-> "empty", args |-> <<>>]
Class(c) == [kind |-> "class", args |-> <<c>>]
Union(cs) == [kind |-> "union", args |-> cs]

\* __decode, were a failed conversion to hand the raw token on
Decode_RawOnFailure(tpe, value) ==
    IF tpe.kind = "empty" \/ ~Construct(tpe.args[1], value).ok
    THEN Returned(StrV(value))
    ELSE Construct(tpe.args[1], value)

\* CLI.__decode
Decode(tpe, value) ==
    IF tpe.kind = "empty" THEN Returned(StrV(value))
    ELSE IF tpe.kind = "union" /\ tpe.args # <<>>
         THEN Construct(tpe.args[1], value)
    ELSE Construct(tpe.args[1], value)

----------------------------------------------------------------------------
(* Names of the program, as str *)

s_help   == <<"h","e","l","p">>
s_qmark  == <<"?">>
s_clear_host == <<"c","l","e","a","r","-","h","o","s","t">>
s_clear  == <<"c","l","e","a","r">>
s_cls    == <<"c","l","s">>
s_leave  == <<"l","e","a","v","e">>
s_exit   == <<"e","x","i","t">>
s_change_directory ==
    <<"c","h","a","n","g","e","_","d","i","r","e","c","t","o","r","y">>
s_cd     == <<"c","d">>
s_path   == <<"p","a","t","h">>
s_m      == <<"m">>

\* names of the handlers and parameters a program using the library declares
s_cmd    == <<"c","m","d">>
s_ping   == <<"p","i","n","g">>
s_conv   == <<"c","o","n","v">>
s_p      == <<"p">>
s_x      == <<"x">>
s_flag   == <<"f","l","a","g">>
s_a      == <<"a">>
s_b      == <<"b">>

----------------------------------------------------------------------------
(* Handlers: what inspect.signature(func), func.__name__ and func.__doc__   *)
(* give, and which body runs when the handler is called.                    *)

NoDefault == [t |-> "empty", n |-> 0, s |-> <<>>]    \* Signature.empty

Param(name, ann, default) == [name |-> name, ann |-> ann, default |-> default]

Func(name, doc, params, body, wrapped, defaults) ==
    [name |-> name, doc |-> doc, params |-> params, body |-> body,
     wrapped |-> wrapped, defaults |-> defaults]

\* CLI.help(self, m: bool = True)
F_help == Func(s_help, <<"Displays info about terminal commands.">>,
               <<Param(s_m, Class("bool"), BoolV(TRUE))>>, "help", FALSE, <<>>)
\* CLI.clear_host(self)
F_clear_host == Func(<<"c","l","e","a","r","_","h","o","s","t">>,
                     <<"Reset the display of the terminal.">>,
                     <<>>, "clear_host", FALSE, <<>>)
\* CLI.leave(self)
F_leave == Func(s_leave, <<"Close the terminal.">>, <<>>, "leave", FALSE, <<>>)
\* the @optional(CLI.home) change_directory(path) closure of CLI.__init__
F_change_directory(home) ==
    Func(s_change_directory, <<>>, <<Param(s_path, Empty, NoDefault)>>,
         "change_directory", TRUE, <<StrV(home)>>)

\* def cmd(p, x: int = 1, flag=True)
F_cmd == Func(s_cmd, <<>>,
              <<Param(s_p, Empty, NoDefault),
                Param(s_x, Class("int"), IntV(1)),
                Param(s_flag, Empty, BoolV(TRUE))>>, "user", FALSE, <<>>)
\* def ping(): "D"
F_ping == Func(s_ping, <<"D">>, <<>>, "user", FALSE, <<>>)
\* def conv(a: Union[int, str], b: Union[int, float], x: int = 1)
F_conv == Func(s_conv, <<>>,
               <<Param(s_a, Union(<<"int", "str">>), NoDefault),
                 Param(s_b, Union(<<"int", "float">>), NoDefault),
                 Param(s_x, Class("int"), IntV(1))>>, "user", FALSE, <<>>)

UserFuncs == {F_cmd, F_ping, F_conv}

----------------------------------------------------------------------------
(* CLI.__info: the help text of a command, as the pieces it is built from  *)

\* str(annotation).replace("<class '", "").replace("'>", "")
AnnText(ann) ==
    CASE ann.kind = "empty" -> <<"inspect._empty">>
      [] ann.kind = "class" -> <<ann.args[1]>>
      [] OTHER -> <<"typing.Union[">> \o Join(<<", ">>, MapSeq(ann.args, LAMBDA c : <<c>>)) \o <<"]">>

\* str(default)
ValueText(v) ==
    CASE v.t = "str"  -> v.s
      [] v.t = "bool" -> IF v.n = 1 THEN <<"True">> ELSE <<"False">>
      [] v.t = "None" -> <<"None">>
      [] OTHER        -> <<ToString(v.n)>>

Has(data, k) == k \in DOMAIN data

InfoArgs(data) ==
    Concat(MapSeq(data.args, LAMBDA j : <<"\n", "    ">> \o Strip(j.key, {"[", "]"})
                                          \o <<": ">> \o AnnText(j.ann)))

\* the lines of the named parameters, were they to leave the default out
InfoParams_NoDefault(data) ==
    Concat(MapSeq(data.params,
        LAMBDA j : <<"\n", "    ">> \o j.key
                   \o (IF AnnText(j.ann) = <<"None">> THEN <<>>
                       ELSE <<": ">> \o AnnText(j.ann))))

InfoParams(data) ==
    Concat(MapSeq(data.params,
        LAMBDA j : <<"\n", "    ">> \o j.key
                   \o (IF AnnText(j.ann) = <<"None">> THEN <<>>
                       ELSE <<": ">> \o AnnText(j.ann))
                   \o <<" = ">> \o ValueText(j.default)))

\* the part of txt one key of data contributes
InfoTxt(data, i) ==
    CASE i = "doc"     -> <<"\n", "Documentation: ">> \o data.doc
      [] i = "args"    -> <<"\n", "Argument(s):">> \o InfoArgs(data)
      [] i = "params"  -> <<"\n", "Parameter(s):">> \o InfoParams(data)
      [] i = "options" -> <<"\n", "Option(s):">> \o <<" ">>
                          \o data.options[Len(data.options)]
      [] i = "alias"   -> <<"\n", "Alias: ">> \o Join(<<",", " ">>, data.alias)
      [] OTHER         -> <<>>

\* the part of usage one key of data contributes
InfoUsage(data, i) ==
    CASE i = "args"    -> Concat(MapSeq(data.args, LAMBDA j : <<" ">> \o j.key))
      [] i = "params"  -> Concat(MapSeq(data.params, LAMBDA j : <<" ">> \o j.key))
      [] i = "options" -> Concat(MapSeq(data.options, LAMBDA j : <<" ">> \o j))
      [] OTHER         -> <<>>

\* the keys of data in the order wrapper inserts them
KeyOrder == <<"function", "doc", "args", "options", "params", "alias">>

PresentKeys(data) == SelectSeq(KeyOrder, LAMBDA k : Has(data, k))

Info(name, data) ==
    LET keys  == PresentKeys(data)
        usage == <<"\n", "Usage: ">> \o name
                   \o Concat(MapSeq(keys, LAMBDA i : InfoUsage(data, i)))
        txt   == Concat(MapSeq(keys, LAMBDA i : InfoTxt(data, i)))
    IN  From(txt, 1) \o usage

----------------------------------------------------------------------------
(* CLI.command: the registration of one handler *)

\* the test of a flag, were it arg_info.default == True: 1 == True
IsFlag_Equal(q) == q.default \in {BoolV(TRUE), IntV(1)}

IsPositional(q) == q.default = NoDefault
IsFlag(q)       == q.default = BoolV(TRUE)
IsNamed(q)      == ~IsPositional(q) /\ ~IsFlag(q)

ArgsOf(func) ==
    MapSeq(SelectSeq(func.params, IsPositional),
           LAMBDA q : [key |-> <<"[">> \o q.name \o <<"]">>, ann |-> q.ann])

OptionsOf(func) ==
    MapSeq(SelectSeq(func.params, IsFlag), LAMBDA q : <<"-">> \o q.name)

ParamsOf(func) ==
    MapSeq(SelectSeq(func.params, IsNamed),
           LAMBDA q : [key |-> <<"-", "-">> \o q.name, ann |-> q.ann,
                       default |-> q.default])

\* the dict wrapper builds before it computes data["info"]
DataOf(func, doc, alias) ==
    LET keys == {"function"}
                \cup (IF doc # <<>> THEN {"doc"} ELSE {})
                \cup (IF ArgsOf(func) # <<>> THEN {"args"} ELSE {})
                \cup (IF OptionsOf(func) # <<>> THEN {"options"} ELSE {})
                \cup (IF ParamsOf(func) # <<>> THEN {"params"} ELSE {})
                \cup (IF alias # <<>> THEN {"alias"} ELSE {})
    IN  [k \in keys |->
            CASE k = "function" -> func
              [] k = "doc"      -> doc
              [] k = "args"     -> ArgsOf(func)
              [] k = "options"  -> OptionsOf(func)
              [] k = "params"   -> ParamsOf(func)
              [] OTHER          -> MapSeq(alias, Lower)]

\* entries of CLI.__cmd: a command dict, or the canonical name an alias stands for
Record(data)  == [isdict |-> TRUE,  name |-> <<>>, data |-> data]
AliasOf(name) == [isdict |-> FALSE, name |-> name, data |-> <<>>]

\* the key, were lower() left out
CanonicalName_NoLower(name) == ReplaceSpace(name)

CanonicalName(name) == Lower(ReplaceSpace(name))

\* self.__cmd after wrapper(name, doc, alias) for func
Registered(table, name, doc, alias, func) ==
    LET d    == IF doc # <<>> THEN doc ELSE func.doc
        n0   == IF name # <<>> THEN name ELSE func.name
        n    == CanonicalName(n0)
        data == DataOf(func, d, alias)
        full == [k \in DOMAIN data \cup {"info"} |->
                    IF k = "info" THEN Info(n, data) ELSE data[k]]
        keys == {Lower(alias[i]) : i \in 1..Len(alias)}
    IN  [k \in DOMAIN table \cup {n} \cup keys |->
            IF k \in keys THEN AliasOf(n)
            ELSE IF k = n THEN Record(full)
            ELSE table[k]]

----------------------------------------------------------------------------
(* shlex.split: the tokens of one input line *)

Whitespace == {" ", "\t", "\r", "\n"}
Quotes == {"'", "\""}

SplitOk(tokens) == [ok |-> TRUE, tokens |-> tokens, exc |-> "none"]
SplitErr(e) == [ok |-> FALSE, tokens |-> <<>>, exc |-> e]

RECURSIVE Shlex(_, _, _, _, _)
\* st: " " between tokens, "a" in a word, a quote inside that quote, "\\" after
\* a backslash (est is the state to go back to)
Shlex(s, st, est, tok, acc) ==
    IF s = <<>>
    THEN IF st \in Quotes THEN SplitErr("ValueError: No closing quotation")
         ELSE IF st = "\\" THEN SplitErr("ValueError: No escaped character")
         ELSE IF st = "a" THEN SplitOk(Append(acc, tok))
         ELSE SplitOk(acc)
    ELSE LET c == Head(s)
             r == Tail(s)
         IN  CASE st = " " ->
                    IF c \in Whitespace THEN Shlex(r, " ", est, <<>>, acc)
                    ELSE IF c = "\\" THEN Shlex(r, "\\", "a", <<>>, acc)
                    ELSE IF c \in Quotes THEN Shlex(r, c, est, <<>>, acc)
                    ELSE Shlex(r, "a", est, <<c>>, acc)
               [] st \in Quotes ->
                    IF c = st THEN Shlex(r, "a", est, tok, acc)
                    ELSE IF c = "\\" /\ st = "\"" THEN Shlex(r, "\\", st, tok, acc)
                    ELSE Shlex(r, st, est, Append(tok, c), acc)
               [] st = "\\" ->
                    IF est \in Quotes /\ c # "\\" /\ c # est
                    THEN Shlex(r, est, est, tok \o <<"\\", c>>, acc)
                    ELSE Shlex(r, est, est, Append(tok, c), acc)
               [] OTHER ->
                    IF c \in Whitespace THEN Shlex(r, " ", est, <<>>, Append(acc, tok))
                    ELSE IF c \in Quotes THEN Shlex(r, c, est, tok, acc)
                    ELSE IF c = "\\" THEN Shlex(r, "\\", "a", tok, acc)
                    ELSE Shlex(r, "a", est, Append(tok, c), acc)

RECURSIVE SplitOn(_, _, _, _)
\* str.split(sep) for a one-character sep
SplitOn(s, sep, cur, acc) ==
    IF s = <<>> THEN Append(acc, cur)
    ELSE IF Head(s) = sep THEN SplitOn(Tail(s), sep, <<>>, Append(acc, cur))
    ELSE SplitOn(Tail(s), sep, Append(cur, Head(s)), acc)

\* the split of the line, were it str.split(" ") without the empty strings
splitS_StrSplit(line) ==
    SplitOk(SelectSeq(SplitOn(line, " ", <<>>, <<>>), LAMBDA w : w # <<>>))

splitS(line) == Shlex(line, " ", " ", <<>>, <<>>)

----------------------------------------------------------------------------
(* What a cycle prints: print(self.format(text)); formating is "{}" *)

Line(kind, text) == [kind |-> kind, text |-> text]

UnknownParameter == Line("UnknownParameter", <<"Unknown Parameter">>)
UnknownOption    == Line("UnknownOption", <<"Unknown Option">>)
TooManyArguments == Line("TooManyArguments", <<"Too many arguments provided.">>)
HelpText(info)   == Line("info", info)
NotFound(token)  ==
    Line("NotFound", token \o <<" doesn't exist.", "\n",
                                "Do help to get the list of existing commands.">>)
Unexpected(e)    == Line("Unexpected", <<"An unexpected error occurred: ", e>>)
InvalidPath      == Line("InvalidPath", <<"The path is invalid.">>)

----------------------------------------------------------------------------
(* CLI.exec: the parse of entry[1:] against a command dict *)

NoKwargs == [k \in {} |-> NoneV]

\* kwargs[key] = value
Set(kwargs, key, value) ==
    [k \in DOMAIN kwargs \cup {key} |-> IF k = key THEN value ELSE kwargs[k]]

\* exec, were it to start from an empty kwargs
InitKwargs_NoFlags(cmd) == NoKwargs

\* kwargs[opt[1:]] = False for every option
InitKwargs(cmd) ==
    IF Has(cmd, "options")
    THEN [k \in {From(cmd.options[i], 1) : i \in 1..Len(cmd.options)} |-> BoolV(FALSE)]
    ELSE NoKwargs

\* where the while loop of exec stopped: do, the exception that left it (or
\* "none"), what it printed, kwargs, index and arg_i
Stop(do, exc, printed, kwargs, index, arg_i) ==
    [do |-> do, exc |-> exc, printed |-> printed, kwargs |-> kwargs,
     index |-> index, arg_i |-> arg_i]

\* the test exec makes of a single-dash token before it sets kwargs[arg[1:]]
IsOption(cmd, kwargs, arg) == From(arg, 1) \in DOMAIN kwargs

\* the "-?" branch, were it to leave do unset
HelpStop_NoDo(cmd, kwargs, index, arg_i) ==
    Stop(FALSE, "none", <<HelpText(cmd.info)>>, kwargs, index, arg_i)

\* the "-?" branch: do = True, print(self.format(cmd["info"])), break
HelpStop(cmd, kwargs, index, arg_i) ==
    Stop(TRUE, "none", <<HelpText(cmd.info)>>, kwargs, index, arg_i)

\* the branch of a plain token past the last positional, were it to leave do unset
TooManyStop_NoDo(kwargs, index, arg_i) ==
    Stop(FALSE, "none", <<TooManyArguments>>, kwargs, index, arg_i)

\* the branch of a plain token past the last positional: print, do = True, break
TooManyStop(kwargs, index, arg_i) ==
    Stop(TRUE, "none", <<TooManyArguments>>, kwargs, index, arg_i)

\* the right-hand side of the "--name" assignment, were it to read the
\* following token without the test of the end of the entry
NamedValue_Required(q, tokens, index) ==
    IF index + 1 >= Len(tokens) THEN Raised("IndexError: list index out of range")
    ELSE Decode(q.ann, tokens[index + 2])

\* None if index + 1 >= len(entry) else self.__decode(value[0], entry[index + 1])
NamedValue(q, tokens, index) ==
    IF index + 1 >= Len(tokens) THEN Returned(NoneV)
    ELSE Decode(q.ann, tokens[index + 2])

RECURSIVE ExecLoop(_, _, _, _, _)
\* index and arg_i count from 0 as in the code: entry[index] is entry[index + 1] here
ExecLoop(cmd, tokens, index, arg_i, kwargs) ==
    IF ~(index < Len(tokens))
    THEN Stop(FALSE, "none", <<>>, kwargs, index, arg_i)
    ELSE
    LET arg == tokens[index + 1] IN
    IF StartsWith(arg, <<"-", "-">>)
    THEN IF ~Has(cmd, "params")
         THEN Stop(FALSE, "KeyError: 'params'", <<>>, kwargs, index, arg_i)
         ELSE
         LET hit == SelectSeq(cmd.params, LAMBDA q : q.key = arg) IN
         IF hit = <<>>
         THEN Stop(TRUE, "none", <<UnknownParameter>>, kwargs, index, arg_i)
         ELSE
         LET d == NamedValue(hit[1], tokens, index) IN
         IF ~d.ok
         THEN Stop(FALSE, d.exc, <<>>, kwargs, index, arg_i)
         ELSE ExecLoop(cmd, tokens,
                       index + (IF d.val # NoneV THEN 1 ELSE 0) + 1, arg_i,
                       Set(kwargs, From(arg, 2), d.val))
    ELSE IF StartsWith(arg, <<"-">>)
    THEN IF IsOption(cmd, kwargs, arg)
         THEN ExecLoop(cmd, tokens, index + 1, arg_i,
                       Set(kwargs, From(arg, 1), BoolV(TRUE)))
         ELSE IF arg = <<"-", "?">>
         THEN HelpStop(cmd, kwargs, index, arg_i)
         ELSE Stop(TRUE, "none", <<UnknownOption>>, kwargs, index, arg_i)
    ELSE IF ~Has(cmd, "args")
         THEN Stop(FALSE, "KeyError: 'args'", <<>>, kwargs, index, arg_i)
         ELSE IF arg_i < Len(cmd.args)
         THEN LET d == Decode(cmd.args[arg_i + 1].ann, arg) IN
              IF ~d.ok
              THEN Stop(FALSE, d.exc, <<>>, kwargs, index, arg_i)
              ELSE ExecLoop(cmd, tokens, index + 1, arg_i + 1,
                            Set(kwargs, Strip(cmd.args[arg_i + 1].key, {"[", "]"}), d.val))
         ELSE TooManyStop(kwargs, index, arg_i)

\* exec up to the call of the handler; cmd is an entry of CLI.__cmd
Parse(cmd, tokens) ==
    IF ~cmd.isdict
    THEN Stop(FALSE, "AttributeError: 'str' object has no attribute 'get'",
              <<>>, NoKwargs, 1, 0)
    ELSE ExecLoop(cmd.data, tokens, 1, 0, InitKwargs(cmd.data))

----------------------------------------------------------------------------
(* The call of cmd["function"] with kwargs: the binding to the handler *)

\* the wrapper of optional: absent parameters get defaults[i] or None
OptionalFill(func, kwargs) ==
    [k \in DOMAIN kwargs \cup {func.params[i].name : i \in 1..Len(func.params)} |->
        IF k \in DOMAIN kwargs /\ kwargs[k] # NoDefault THEN kwargs[k]
        ELSE LET i == CHOOSE j \in 1..Len(func.params) : func.params[j].name = k
             IN  IF i <= Len(func.defaults) THEN func.defaults[i] ELSE NoneV]

\* the parameters of the handler's body, or TypeError when a parameter without
\* default is missing
Bind(func, kwargs) ==
    IF func.wrapped THEN [ok |-> TRUE, kwargs |-> OptionalFill(func, kwargs)]
    ELSE IF \E i \in 1..Len(func.params) :
                /\ func.params[i].default = NoDefault
                /\ func.params[i].name \notin DOMAIN kwargs
    THEN [ok |-> FALSE, kwargs |-> kwargs]
    ELSE [ok |-> TRUE,
          kwargs |-> [k \in {func.params[i].name : i \in 1..Len(func.params)} |->
                        IF k \in DOMAIN kwargs THEN kwargs[k]
                        ELSE (CHOOSE q \in {func.params[i] : i \in 1..Len(func.params)} :
                                 q.name = k).default]]

Call(func, kwargs) == [func |-> func.name, kwargs |-> kwargs]

----------------------------------------------------------------------------
(* os.path on a POSIX host, and CLI.change_directory *)

\* os.name
OsName == "posix"

\* CLI.home, the directory of core.py
Home == <<"/","o","p","t","/","W","i","z","a","r","d","C","L","I">>
\* the working directory of the process, against which isdir resolves
Cwd == <<"/">>
\* the directories that exist
Dirs == { <<"/">>,
          <<"/","o","p","t">>,
          Home,
          Home \o <<"/","d","o","c","s">>,
          <<"/","O","p","t">> }

\* posixpath.join(a, b)
PathJoin(a, b) ==
    IF StartsWith(b, <<"/">>) THEN b
    ELSE IF a = <<>> \/ a[Len(a)] = "/" THEN a \o b
    ELSE a \o <<"/">> \o b

RECURSIVE NormComps(_, _, _)
NormComps(comps, rooted, new) ==
    IF comps = <<>> THEN new
    ELSE LET c == Head(comps) IN
         IF c = <<>> \/ c = <<".">> THEN NormComps(Tail(comps), rooted, new)
         ELSE IF \/ c # <<".", ".">>
                 \/ (~rooted /\ new = <<>>)
                 \/ (new # <<>> /\ new[Len(new)] = <<".", ".">>)
              THEN NormComps(Tail(comps), rooted, Append(new, c))
         ELSE IF new # <<>>
              THEN NormComps(Tail(comps), rooted, SubSeq(new, 1, Len(new) - 1))
         ELSE NormComps(Tail(comps), rooted, new)

\* posixpath.normpath(p)
NormPath(p) ==
    IF p = <<>> THEN <<".">>
    ELSE LET rooted == StartsWith(p, <<"/">>)
             body   == Join(<<"/">>, NormComps(SplitOn(p, "/", <<>>, <<>>), rooted, <<>>))
             res    == IF rooted THEN <<"/">> \o body ELSE body
         IN  IF res = <<>> THEN <<".">> ELSE res

\* os.path.isdir(p)
IsDir(p) == NormPath(PathJoin(Cwd, p)) \in Dirs

IsLetter(c) == \E i \in 1..26 : UpperAlpha[i] = c \/ LowerAlpha[i] = c

UpperChar(c) ==
    IF \E i \in 1..26 : LowerAlpha[i] = c
    THEN UpperAlpha[CHOOSE i \in 1..26 : LowerAlpha[i] = c]
    ELSE c

\* str.title()
Title(s) ==
    [i \in 1..Len(s) |->
        IF i = 1 \/ ~IsLetter(s[i - 1]) THEN UpperChar(s[i]) ELSE LowerChar(s[i])]

\* CLI.change_directory: the new self.path and what it prints
ChangeDirectory(selfpath, p) ==
    LET npath == PathJoin(selfpath, p)
        np    == IF IsDir(npath) THEN NormPath(npath) ELSE NormPath(p)
    IN  IF IsDir(np) THEN [path |-> Title(np), printed |-> <<>>]
        ELSE [path |-> selfpath, printed |-> <<InvalidPath>>]

----------------------------------------------------------------------------
(* The bodies of the handlers *)

Effect(printed, newstate, newpath) ==
    [printed |-> printed, state |-> newstate, path |-> newpath]

\* the listing CLI.help prints is a function of CLI.__cmd and m (CLI.__format);
\* only its form is kept here
HelpListing(m) ==
    Line("help", <<IF m = BoolV(FALSE) \/ m = NoneV THEN "name doc"
                   ELSE "Alias aliases -> usage doc">>)

\* CLI.leave, were it to return to the loop
LeaveEffect_Returns(selfpath) == Effect(<<>>, "Looping", selfpath)

\* CLI.leave: kill(getpid(), 9)
LeaveEffect(selfpath) == Effect(<<>>, "Stopped", selfpath)

\* what the body of the handler does when called with kwargs; raises says
\* whether the body of a handler of the using program raises
Body(func, kwargs, selfpath, raises) ==
    CASE func.body = "help" ->
            Effect(<<HelpListing(kwargs[s_m])>>, "Looping", selfpath)
      [] func.body = "clear_host" ->
            Effect(<<Line("clear", <<"ESC[H", "ESC[J">>)>>, "Looping", selfpath)
      [] func.body = "leave" -> LeaveEffect(selfpath)
      [] func.body = "change_directory" ->
            IF kwargs[s_path].t # "str"
            THEN Effect(<<Unexpected("TypeError: join() argument")>>, "Looping", selfpath)
            ELSE LET r == ChangeDirectory(selfpath, kwargs[s_path].s)
                 IN  Effect(r.printed, "Looping", r.path)
      [] OTHER ->
            IF raises THEN Effect(<<Unexpected("Exception")>>, "Looping", selfpath)
            ELSE Effect(<<>>, "Looping", selfpath)

----------------------------------------------------------------------------
(* CLI.run: one cycle of the loop *)

Result(tokens, printed, called, newstate, newpath) ==
    [entry |-> tokens, out |-> printed, calls |-> called,
     state |-> newstate, path |-> newpath]

\* the except clause of run, were the exception to leave the loop
Caught_Fatal(tokens, printed, e, selfpath) ==
    Result(tokens, printed \o <<Unexpected(e)>>, <<>>, "Stopped", selfpath)

\* except Exception as e: the diagnostic is printed and the loop goes on
Caught(tokens, printed, e, selfpath) ==
    Result(tokens, printed \o <<Unexpected(e)>>, <<>>, "Looping", selfpath)

\* self.__cmd.get(entry[0].lower()), then one indirection for a str
Resolve(table, token) ==
    LET cmd == table[Lower(token)]
    IN  IF cmd.isdict THEN cmd ELSE table[cmd.name]

\* exec: the parse, then the call of the handler unless do is set
Exec(cmd, tokens, selfpath, raises) ==
    LET pr == Parse(cmd, tokens) IN
    IF pr.exc # "none"
    THEN Caught(tokens, pr.printed, pr.exc, selfpath)
    ELSE IF pr.do
    THEN Result(tokens, pr.printed, <<>>, "Looping", selfpath)
    ELSE LET func == cmd.data.function
             b    == Bind(func, pr.kwargs)
         IN  IF ~b.ok
             THEN Caught(tokens, pr.printed, "TypeError: missing required argument",
                         selfpath)
             ELSE LET e == Body(func, b.kwargs, selfpath, raises)
                  IN  Result(tokens, pr.printed \o e.printed, <<Call(func, b.kwargs)>>,
                             e.state, e.path)

\* the loop body, were it to look the command up with self.__cmd[...]
Cycle_Subscript(table, selfpath, line, raises) ==
    LET sp == splitS(line) IN
    IF ~sp.ok
    THEN Caught(<<>>, <<>>, sp.exc, selfpath)
    ELSE IF sp.tokens = <<>>
    THEN Result(<<>>, <<>>, <<>>, "Looping", selfpath)
    ELSE IF Lower(sp.tokens[1]) \notin DOMAIN table
    THEN Caught(sp.tokens, <<>>, "KeyError", selfpath)
    ELSE Exec(Resolve(table, sp.tokens[1]), sp.tokens, selfpath, raises)

\* the body of the while loop of run for one line of input
Cycle(table, selfpath, line, raises) ==
    LET sp == splitS(line) IN
    IF ~sp.ok
    THEN Caught(<<>>, <<>>, sp.exc, selfpath)
    ELSE IF sp.tokens = <<>>
    THEN Result(<<>>, <<>>, <<>>, "Looping", selfpath)
    ELSE IF Lower(sp.tokens[1]) \notin DOMAIN table
    THEN Result(sp.tokens, <<NotFound(sp.tokens[1])>>, <<>>, "Looping", selfpath)
    ELSE Exec(Resolve(table, sp.tokens[1]), sp.tokens, selfpath, raises)

----------------------------------------------------------------------------
(* The state machine *)

\* CLI.__init__: the four built-in commands
Constructed ==
    LET t0 == [k \in {} |-> AliasOf(<<>>)]
        t1 == Registered(t0, <<>>, F_help.doc, <<s_qmark>>, F_help)
        t2 == Registered(t1, s_clear_host, F_clear_host.doc,
                         <<IF OsName = "nt" THEN s_cls ELSE s_clear>>, F_clear_host)
        t3 == Registered(t2, <<>>, F_leave.doc, <<s_exit>>, F_leave)
    IN  Registered(t3, <<>>,
            <<"Allows you to change the location of the terminal in your files.">>,
            <<s_cd>>, F_change_directory(Home))

----------------------------------------------------------------------------
(* File: the tasks a File schedules and the threads that run them *)

\* None, where the task table or a worker holds no task
NoTask == [id |-> 0, func |-> "none"]

\* File.__init__: self.__running = False, self.__tasks = {...}; no thread yet
FileInit ==
    /\ tasks = [rename |-> NoTask, move |-> NoTask, write |-> <<>>]
    /\ running = FALSE
    /\ mpc = [pc |-> "idle", func |-> "none"]
    /\ wpc = <<>>
    /\ nsched = 0
    /\ done = <<>>

\* the scheduling methods: append(data) schedules a write of bytes, and so do
\* insert, drop and __sub__; clear() schedules a write of the str ""; rename
\* and move schedule os.rename and shutil.move
Methods == {"append", "clear", "rename", "move"}

\* for key in ["rename", "move", "write"]
Keys == <<"rename", "move", "write">>

\* the task table after __newt(func, *args) stored the task t: a rename or a
\* move replaces the pending one; a write is appended, since args[0] is the
\* data (bytes, or "" from clear) and never equals the str "wb"
NewT(tbl, t) ==
    IF t.func = "rename" THEN [tbl EXCEPT !.rename = t]
    ELSE IF t.func = "move" THEN [tbl EXCEPT !.move = t]
    ELSE [tbl EXCEPT !.write = Append(tbl.write, t)]

\* the truth value of self.__tasks[key]: None and [] are false, a tuple
\* (func, args) and a non-empty list are true
Truthy(tbl, key) ==
    IF key = "write" THEN tbl.write # <<>> ELSE tbl[key] # NoTask

\* a thread Thread(target=self.__run) that has not run yet
NewWorker == [pc |-> "start", key |-> 0, task |-> NoTask, err |-> "none"]

\* a scheduling method up to the end of the if/elif chain of __newt: the
\* task is in the table, the test of __running is still to come
Schedule(m) ==
    /\ mpc.pc = "idle"
    /\ nsched < MaxTasks
    /\ nsched' = nsched + 1
    /\ tasks' = NewT(tasks, [id |-> nsched + 1, func |-> m])
    /\ mpc' = [pc |-> "check", func |-> m]
    /\ UNCHANGED <<running, wpc, done>>
    /\ UNCHANGED clivars

\* if not self.__running: Thread(target=self.__run).start()
StartThread ==
    /\ mpc.pc = "check"
    /\ wpc' = IF running THEN wpc ELSE Append(wpc, NewWorker)
    /\ mpc' = [pc |-> "idle", func |-> "none"]
    /\ UNCHANGED <<tasks, running, nsched, done>>
    /\ UNCHANGED clivars

\* __run, first statement: self.__running = True
RunStart(w) ==
    /\ wpc[w].pc = "start"
    /\ running' = TRUE
    /\ wpc' = [wpc EXCEPT ![w].pc = "while"]
    /\ UNCHANGED <<tasks, mpc, nsched, done>>
    /\ UNCHANGED clivars

\* while self.__tasks["write"] or self.__tasks["rename"] or self.__tasks["move"]
RunWhile(w) ==
    /\ wpc[w].pc = "while"
    /\ wpc' = IF \E i \in 1..Len(Keys) : Truthy(tasks, Keys[i])
              THEN [wpc EXCEPT ![w].pc = "for", ![w].key = 1]
              ELSE [wpc EXCEPT ![w].pc = "exit"]
    /\ UNCHANGED <<tasks, running, mpc, nsched, done>>
    /\ UNCHANGED clivars

\* for key in [...]: if self.__tasks[key]: the test of one key; a false test
\* passes to the next key, and after the last key back to the while test
RunIf(w) ==
    /\ wpc[w].pc = "for"
    /\ wpc' = IF Truthy(tasks, Keys[wpc[w].key])
              THEN [wpc EXCEPT ![w].pc = "pop"]
              ELSE IF wpc[w].key < Len(Keys)
                   THEN [wpc EXCEPT ![w].key = @ + 1]
                   ELSE [wpc EXCEPT ![w].pc = "while", ![w].key = 0]
    /\ UNCHANGED <<tasks, running, mpc, nsched, done>>
    /\ UNCHANGED clivars

\* func, args = self.__tasks[key].pop(0): a tuple (the rename and move
\* entries) and None have no pop, an empty list has nothing to pop; the
\* exception ends the thread
RunPop(w) ==
    /\ wpc[w].pc = "pop"
    /\ LET key == Keys[wpc[w].key]
       IN  IF key # "write"
           THEN /\ wpc' = [wpc EXCEPT ![w].pc = "dead", ![w].err = "AttributeError"]
                /\ tasks' = tasks
           ELSE IF tasks.write = <<>>
           THEN /\ wpc' = [wpc EXCEPT ![w].pc = "dead", ![w].err = "IndexError"]
                /\ tasks' = tasks
           ELSE /\ wpc' = [wpc EXCEPT ![w].pc = "call", ![w].task = Head(tasks.write)]
                /\ tasks' = [tasks EXCEPT !.write = Tail(@)]
    /\ UNCHANGED <<running, mpc, nsched, done>>
    /\ UNCHANGED clivars

\* func(...): the task is executed; __write opens the file and writes the
\* data, and open(path, "wb").write("") of clear raises TypeError once the
\* file is open (and empty); the loop then goes on with the next key
RunCall(w) ==
    /\ wpc[w].pc = "call"
    /\ done' = Append(done, wpc[w].task)
    /\ wpc' = IF wpc[w].task.func = "clear"
              THEN [wpc EXCEPT ![w].pc = "dead", ![w].err = "TypeError", ![w].task = NoTask]
              ELSE IF wpc[w].key < Len(Keys)
                   THEN [wpc EXCEPT ![w].pc = "for", ![w].key = @ + 1, ![w].task = NoTask]
                   ELSE [wpc EXCEPT ![w].pc = "while", ![w].key = 0, ![w].task = NoTask]
    /\ UNCHANGED <<tasks, running, mpc, nsched>>
    /\ UNCHANGED clivars

\* __run, last statement: self.__running = False
RunExit(w) ==
    /\ wpc[w].pc = "exit"
    /\ running' = FALSE
    /\ wpc' = [wpc EXCEPT ![w].pc = "finished"]
    /\ UNCHANGED <<tasks, mpc, nsched, done>>
    /\ UNCHANGED clivars

\* the registries CLI(prompt, user, formating) can construct: no argument of
\* __init__ reaches the registration of the built-in commands
Constructions == { Constructed }

Init ==
    /\ cmds = Constructed
    /\ nregs = 0
    /\ state = "Setup"
    /\ input = <<>>
    /\ entry = <<>>
    /\ out = <<>>
    /\ calls = <<>>
    /\ path = Home
    /\ FileInit

\* @cli.command(name, doc, alias) applied to func, before cli.run()
Register(name, doc, alias, func) ==
    /\ state = "Setup"
    /\ nregs < MaxRegs
    /\ cmds' = Registered(cmds, name, doc, alias, func)
    /\ nregs' = nregs + 1
    /\ UNCHANGED <<state, input, entry, out, calls, path>>
    /\ UNCHANGED filevars

\* cli.run() is called
Run ==
    /\ state = "Setup"
    /\ state' = "Looping"
    /\ UNCHANGED <<cmds, nregs, input, entry, out, calls, path>>
    /\ UNCHANGED filevars

\* a cycle begins: input(self.prompt.format(self.user, self.path)) shows the prompt
Prompt ==
    /\ state = "Looping"
    /\ state' = "Prompting"
    /\ entry' = <<>>
    /\ out' = <<>>
    /\ calls' = <<>>
    /\ input' = <<>>
    /\ UNCHANGED <<cmds, nregs, path>>
    /\ UNCHANGED filevars

\* the line is read and dispatched: the rest of the cycle
RunCycle(line, raises) ==
    /\ state = "Prompting"
    /\ input' = line
    /\ LET r == Cycle(cmds, path, line, raises)
       IN  /\ entry' = r.entry
           /\ out' = r.out
           /\ calls' = r.calls
           /\ state' = r.state
           /\ path' = r.path
    /\ UNCHANGED <<cmds, nregs>>
    /\ UNCHANGED filevars

\* KeyboardInterrupt: kill(getpid(), 9). A cycle is one step here, so the
\* signal is taken where the loop waits, in input()
Interrupt ==
    /\ state = "Prompting"
    /\ state' = "Stopped"
    /\ UNCHANGED <<cmds, nregs, input, entry, out, calls, path>>
    /\ UNCHANGED filevars

----------------------------------------------------------------------------
(* Inputs *)

s_say_hi == <<"S","a","y"," ","H","i">>
s_HW     == <<"H","W">>
s_nope   == <<"n","o","p","e">>

RegNames   == { <<>>, s_say_hi }
RegAliases == { <<>>, <<s_HW>>, <<s_cd>>, <<s_ping>>, <<s_HW, s_cmd>> }
RegFuncs   == { F_cmd, F_ping }

\* the tokens after the command token
t_pos1  == <<"p","o","s","1">>
t_5     == <<"5">>
t_x2    == <<"-","-","x">>
t_flag  == <<"-","f","l","a","g">>
t_help  == <<"-","?">>
t_p     == <<"-","p">>
t_x1    == <<"-","x">>
ArgTokens == { t_pos1, t_5, t_x2, t_flag, t_help, t_p, t_x1 }

SeqsUpTo(S, n) == UNION { [1..k -> S] : k \in 0..n }

LineOf(tokens) == Join(<<" ">>, tokens)

CmdTokens == { s_help, s_leave, s_exit, s_cd, s_ping, s_cmd,
               <<"s","a","y","_","h","i">>, <<"h","w">>, s_HW, s_nope }

Lines ==
    { LineOf(<<c>> \o a) : c \in CmdTokens, a \in SeqsUpTo({t_pos1, t_help}, MaxArgs) }
    \cup { <<>>, <<" ">>, <<"'", "p">> }

\* a line shlex.split refuses: the quotation is not closed
UnclosedLine == <<"'", "p">>

\* cmd --x 5 -flag pos1
ExampleLine == LineOf(<<s_cmd, t_x2, t_5, t_flag, t_pos1>>)

ExecLines ==
    { LineOf(<<c>> \o a) : c \in {s_cmd, s_ping, s_conv},
                           a \in SeqsUpTo(ArgTokens, MaxArgsExec) }
    \cup { ExampleLine, UnclosedLine }

Next ==
    \/ \E n \in RegNames, al \in RegAliases, f \in RegFuncs : Register(n, <<>>, al, f)
    \/ Run
    \/ Prompt
    \/ \E l \in Lines, r \in BOOLEAN : RunCycle(l, r)
    \/ Interrupt

Spec == Init /\ [][Next]_vars

\* the using program registers each of its handlers once, under its own name
NextExec ==
    \/ \E f \in UserFuncs :
          CanonicalName(f.name) \notin DOMAIN cmds /\ Register(<<>>, <<>>, <<>>, f)
    \/ Run
    \/ Prompt
    \/ \E l \in ExecLines, r \in BOOLEAN : RunCycle(l, r)
    \/ Interrupt

SpecExec == Init /\ [][NextExec]_vars

\* handlers of every shape: the parameter at position i is named ParamNames[i]
\* and has one of the annotations and defaults of ParamShapes.  A parameter
\* without default may follow one with a default: def gen(n=1, *, k)
s_gen == <<"g","e","n">>
s_n   == <<"n">>
s_k   == <<"k">>
s_f   == <<"f">>
s_g   == <<"g">>
s_h   == <<"h">>
ParamNames == <<s_n, s_k, s_f, s_g, s_h>>

ParamShapes ==
    { [ann |-> Empty,        default |-> NoDefault],
      [ann |-> Class("int"), default |-> NoDefault],
      [ann |-> Class("int"), default |-> IntV(1)],
      [ann |-> Empty,        default |-> StrV(<<"x">>)],
      [ann |-> Empty,        default |-> BoolV(FALSE)],
      [ann |-> Empty,        default |-> BoolV(TRUE)],
      [ann |-> Class("int"), default |-> BoolV(TRUE)] }

GenFunc(shapes) ==
    Func(s_gen, <<>>,
         [i \in 1..Len(shapes) |->
             Param(ParamNames[i], shapes[i].ann, shapes[i].default)],
         "user", FALSE, <<>>)

GenFuncs == { GenFunc(s) : s \in SeqsUpTo(ParamShapes, MaxParams) }

RegDocs == { <<>>, <<"D">> }

RegLines == { LineOf(<<s_gen>> \o a) : a \in {<<>>, <<t_help>>, <<t_pos1>>} }

\* the using program registers one handler, then runs the CLI
NextReg ==
    \/ \E f \in GenFuncs, d \in RegDocs, al \in {<<>>, <<s_HW>>} :
          nregs = 0 /\ Register(<<>>, d, al, f)
    \/ Run
    \/ Prompt
    \/ \E l \in RegLines, r \in BOOLEAN : RunCycle(l, r)
    \/ Interrupt

SpecReg == Init /\ [][NextReg]_vars

\* foo "bar baz" qux
QuotedExample == <<"f","o","o"," ","\"","b","a","r"," ","b","a","z","\""," ","q","u","x">>

LexAlphabet == { "a", " ", "\"", "'" }

\* every line of up to MaxLine characters, and some longer ones
LexLines ==
    SeqsUpTo(LexAlphabet, MaxLine)
    \cup { QuotedExample, <<" ", "\t", " ">>, <<"a", "\t", "'", "a", " ", "a", "'">> }

\* the user types lines at the prompt of a CLI that has the built-in commands
NextLex ==
    \/ Run
    \/ Prompt
    \/ \E l \in LexLines, r \in BOOLEAN : RunCycle(l, r)
    \/ Interrupt

SpecLex == Init /\ [][NextLex]_vars

\* one thread calls the scheduling methods of a File, one after the other,
\* while the threads it started run __run
NextFile ==
    \/ \E m \in Methods : Schedule(m)
    \/ StartThread
    \/ \E w \in 1..Len(wpc) : RunStart(w)
    \/ \E w \in 1..Len(wpc) : RunWhile(w)
    \/ \E w \in 1..Len(wpc) : RunIf(w)
    \/ \E w \in 1..Len(wpc) : RunPop(w)
    \/ \E w \in 1..Len(wpc) : RunCall(w)
    \/ \E w \in 1..Len(wpc) : RunExit(w)

SpecFile == Init /\ [][NextFile]_vars

----------------------------------------------------------------------------
(* Vocabulary of the properties *)

\* a cycle has dispatched entry to a key of the registry
Dispatched ==
    /\ state \in {"Looping", "Stopped"}
    /\ entry # <<>>
    /\ Lower(entry[1]) \in DOMAIN cmds

\* the registry entry the cycle handed to exec
Cmd == Resolve(cmds, entry[1])

Handler == Cmd.data.function

Positionals(func) == SelectSeq(func.params, IsPositional)
Nameds(func)      == SelectSeq(func.params, IsNamed)
Flags(func)       == SelectSeq(func.params, IsFlag)

IsPlain(token) == ~StartsWith(token, <<"-">>)
IsDouble(token) == StartsWith(token, <<"-", "-">>)
IsSingle(token) == StartsWith(token, <<"-">>) /\ ~IsDouble(token)

NamedTokens(func) == { <<"-", "-">> \o Nameds(func)[i].name : i \in 1..Len(Nameds(func)) }
FlagNames(func)   == { Flags(func)[i].name : i \in 1..Len(Flags(func)) }

\* the exceptions that leave exec before the handler's body starts
ParseErrors ==
    { "KeyError: 'params'", "KeyError: 'args'",
      "ValueError: invalid literal for int()",
      "ValueError: could not convert string to float",
      "AttributeError: 'str' object has no attribute 'get'",
      "TypeError: missing required argument" }

IsParseDiagnostic(l) ==
    \/ l.kind \in {"UnknownParameter", "UnknownOption", "TooManyArguments", "info"}
    \/ l.kind = "Unexpected" /\ l.text[2] \in ParseErrors

\* the decoding of the specification: the members of a union in declared
\* order, the first that succeeds
RECURSIVE FirstSuccess(_, _)
FirstSuccess(classes, value) ==
    IF classes = <<>> THEN Raised("none succeeds")
    ELSE IF Construct(Head(classes), value).ok THEN Construct(Head(classes), value)
    ELSE FirstSuccess(Tail(classes), value)

SpecDecode(tpe, value) ==
    IF tpe.kind = "empty" THEN Returned(StrV(value)) ELSE FirstSuccess(tpe.args, value)

\* the entry is the command token and one raw token for each positional
\* parameter, in order
AllPositionalsSupplied ==
    /\ Len(entry) - 1 = Len(Positionals(Handler))
    /\ \A i \in 2..Len(entry) : IsPlain(entry[i])

----------------------------------------------------------------------------
(* C1..C10 *)

\* the registration (n, al, f) names an alias that is bound to another name
AliasConflict(table, n, al, f) ==
    \E i \in 1..Len(al) :
        /\ Lower(al[i]) \in DOMAIN table
        /\ ~table[Lower(al[i])].isdict
        /\ table[Lower(al[i])].name # CanonicalName(IF n # <<>> THEN n ELSE f.name)

\* C1: a registration whose alias is already bound to a different canonical
\* name fails and leaves the registry as it was.
C1_ConflictLeavesRegistry ==
    [][\A n \in RegNames, al \in RegAliases, f \in RegFuncs :
          ( /\ state = "Setup"
            /\ nregs' = nregs + 1
            /\ cmds' = Registered(cmds, n, <<>>, al, f)
            /\ AliasConflict(cmds, n, al, f) )
          => cmds' = cmds]_vars

\* C2: in every registry state, each alias a Record lists resolves to the
\* same entry as the Record's canonical name.
C2_AliasResolvesToItsRecord ==
    \A k \in DOMAIN cmds :
        (cmds[k].isdict /\ Has(cmds[k].data, "alias")) =>
            \A i \in 1..Len(cmds[k].data.alias) :
                LET a == cmds[k].data.alias[i]
                IN  a \in DOMAIN cmds /\ Resolve(cmds, a) = Resolve(cmds, k)

\* C3: a dispatch either starts the handler once and prints no parse
\* diagnostic, or prints exactly one diagnostic and does not start the handler.
C3_OneOutcomePerDispatch ==
    Dispatched =>
        \/ /\ Len(calls) = 1
           /\ \A i \in 1..Len(out) : ~IsParseDiagnostic(out[i])
        \/ /\ calls = <<>>
           /\ Len(out) = 1
           /\ IsParseDiagnostic(out[1])

C3_Witness ==
    /\ Dispatched
    /\ Len(calls) = 1
    /\ Len(entry) >= 3
    /\ out = <<>>

\* C4: when the parse reaches a plain token with all k positional parameters
\* filled (k >= 0), the dispatch prints TooManyArguments and the handler is
\* not started.
C4_ExcessPlainTokenIsTooMany ==
    (Dispatched /\ Cmd.isdict) =>
        LET pr == Parse(Cmd, entry) IN
        ( /\ pr.index < Len(entry)
          /\ IsPlain(entry[pr.index + 1])
          /\ pr.arg_i = Len(Positionals(Handler)) )
        => (out = <<TooManyArguments>> /\ calls = <<>>)

\* C5: when the parse reaches a "--" token that is not a declared Named
\* parameter of the command, the dispatch prints UnknownParameter and the
\* handler is not started.
C5_UndeclaredDoubleDashIsUnknownParameter ==
    (Dispatched /\ Cmd.isdict) =>
        LET pr == Parse(Cmd, entry) IN
        ( /\ pr.index < Len(entry)
          /\ IsDouble(entry[pr.index + 1])
          /\ entry[pr.index + 1] \notin NamedTokens(Handler) )
        => (out = <<UnknownParameter>> /\ calls = <<>>)

\* C6: a single-dash token other than "-?" that the parse reaches sets the
\* declared Flag of that name; if there is none the dispatch prints
\* UnknownOption and the handler is not started.  (Stated for the tokens no
\* "--" token precedes, which no Named parameter can have consumed.)
C6_SingleDashIsFlagOrUnknownOption ==
    (Dispatched /\ Cmd.isdict) =>
        \A i \in 2..Len(entry) :
            ( /\ IsSingle(entry[i])
              /\ entry[i] # <<"-", "?">>
              /\ \A j \in 2..(i - 1) : ~IsDouble(entry[j])
              /\ LET pre == Parse(Cmd, SubSeq(entry, 1, i - 1))
                 IN  pre.exc = "none" /\ ~pre.do )
            => IF From(entry[i], 1) \in FlagNames(Handler)
               THEN calls # <<>> => calls[1].kwargs[From(entry[i], 1)] = BoolV(TRUE)
               ELSE out = <<UnknownOption>> /\ calls = <<>>

\* C7: with one raw token for each positional parameter, each decodable by
\* some member of its type, the handler is started with, for each parameter,
\* the result of the first member that succeeds (the raw token if untyped).
C7_UnionTriesMembersInOrder ==
    (Dispatched /\ Cmd.isdict /\ AllPositionalsSupplied) =>
        LET ps == Positionals(Handler) IN
        (\A i \in 1..Len(ps) : SpecDecode(ps[i].ann, entry[i + 1]).ok)
        => /\ Len(calls) = 1
           /\ \A i \in 1..Len(ps) :
                calls[1].kwargs[ps[i].name] = SpecDecode(ps[i].ann, entry[i + 1]).val

\* some positional of the entry has a raw token no candidate type decodes
SomeTokenUndecodable ==
    /\ Dispatched
    /\ Cmd.isdict
    /\ AllPositionalsSupplied
    /\ \E i \in 1..Len(Positionals(Handler)) :
          ~SpecDecode(Positionals(Handler)[i].ann, entry[i + 1]).ok

FlagSupplied(q) ==
    \E i \in 2..Len(entry) :
        /\ entry[i] = <<"-">> \o q.name
        /\ entry[i - 1] \notin NamedTokens(Handler)

\* C9: cmd --x 5 -flag pos1 starts cmd(p, x: int, flag) once with x = 5,
\* flag = True, p = "pos1"; and every started handler gets each of its flags,
\* True when the flag's token was supplied and False when not.
C9_ExampleAndFlags ==
    (Dispatched /\ Cmd.isdict) =>
        /\ (entry = <<s_cmd, t_x2, t_5, t_flag, t_pos1>> /\ Handler = F_cmd)
           => calls = <<Call(F_cmd, (s_p :> StrV(t_pos1)) @@ (s_x :> IntV(5))
                                     @@ (s_flag :> BoolV(TRUE)))>>
        /\ calls # <<>> =>
             \A i \in 1..Len(Flags(Handler)) :
                LET q == Flags(Handler)[i] IN
                /\ q.name \in DOMAIN calls[1].kwargs
                /\ calls[1].kwargs[q.name] = BoolV(FlagSupplied(q))

C9_Witness ==
    /\ Dispatched
    /\ entry = <<s_cmd, t_x2, t_5, t_flag, t_pos1>>
    /\ Len(calls) = 1
    /\ calls[1].kwargs[s_x] = IntV(5)

\* C10: dispatching [cmd, "-?"] to a registered command does not start the
\* handler and prints exactly the help text stored in its record.
C10_HelpTokenPrintsStoredHelp ==
    (Dispatched /\ Cmd.isdict /\ Len(entry) = 2 /\ entry[2] = <<"-", "?">>) =>
        /\ calls = <<>>
        /\ out = <<Line("info", Cmd.data.info)>>

C10_Witness ==
    /\ Dispatched
    /\ Cmd.isdict
    /\ entry = <<s_HW, t_help>>
    /\ Handler = F_ping
    /\ out = <<Line("info", Cmd.data.info)>>

----------------------------------------------------------------------------
(* C11..C20 *)

\* the kind the classification rule gives a declared parameter
Kind(q) ==
    IF q.default = NoDefault THEN "Positional"
    ELSE IF q.default = BoolV(TRUE) THEN "Flag"
    ELSE "Named"

\* how many of the first i parameters of ps are of kind K
Rank(ps, i, K) == Cardinality({ j \in 1..i : Kind(ps[j]) = K })

\* a list of a command dict, empty when wrapper did not store the key
ListOf(data, k) == IF Has(data, k) THEN data[k] ELSE <<>>

\* the record's args, options and params are the handler's parameters, each
\* under the list of its kind, at its rank among the parameters of that kind
ClassifiedInOrder(data) ==
    LET ps == data.function.params
        n  == Len(ps)
    IN  /\ Len(ListOf(data, "args")) = Rank(ps, n, "Positional")
        /\ Len(ListOf(data, "options")) = Rank(ps, n, "Flag")
        /\ Len(ListOf(data, "params")) = Rank(ps, n, "Named")
        /\ \A i \in 1..n :
              LET r == Rank(ps, i, Kind(ps[i])) IN
              CASE Kind(ps[i]) = "Positional" ->
                      data.args[r] = [key |-> <<"[">> \o ps[i].name \o <<"]">>,
                                      ann |-> ps[i].ann]
                [] Kind(ps[i]) = "Flag" ->
                      data.options[r] = <<"-">> \o ps[i].name
                [] OTHER ->
                      data.params[r] = [key |-> <<"-", "-">> \o ps[i].name,
                                        ann |-> ps[i].ann,
                                        default |-> ps[i].default]

\* C11: every record of the registry holds its handler's parameters
\* classified in declaration order: no default is Positional, default True is
\* Flag whatever the declared type, any other default (False included) is
\* Named with that default and the declared type.
C11_ClassifiedInDeclarationOrder ==
    \A k \in DOMAIN cmds : cmds[k].isdict => ClassifiedInOrder(cmds[k].data)

\* a handler (a, b: int = True, c = "x") is registered
C11_Witness ==
    /\ s_gen \in DOMAIN cmds
    /\ cmds[s_gen].isdict
    /\ LET ps == cmds[s_gen].data.function.params
       IN  /\ Len(ps) = 3
           /\ ps[1].default = NoDefault
           /\ ps[2] = Param(s_k, Class("int"), BoolV(TRUE))
           /\ ps[3].default = StrV(<<"x">>)
    /\ Len(cmds[s_gen].data.params) = 1


\* C12: in every registry state, the name an alias entry holds is a key of
\* the registry whose value is a Record, so that one indirection from any
\* alias key ends at a Record.
C12_AliasPointsAtRecord ==
    \A k \in DOMAIN cmds :
        ~cmds[k].isdict =>
            /\ cmds[k].name \in DOMAIN cmds
            /\ cmds[cmds[k].name].isdict


\* the cycle of line l raises before or inside the handler: the split of the
\* line, a parse step, a decode, the binding of the call, or the handler's body
Fails(table, selfpath, l, raises) ==
    LET sp == splitS(l) IN
    \/ ~sp.ok
    \/ /\ sp.tokens # <<>>
       /\ Lower(sp.tokens[1]) \in DOMAIN table
       /\ LET cmd == Resolve(table, sp.tokens[1])
              pr  == Parse(cmd, sp.tokens)
          IN  \/ pr.exc # "none"
              \/ /\ ~pr.do
                 /\ \/ ~Bind(cmd.data.function, pr.kwargs).ok
                    \/ cmd.data.function.body = "user" /\ raises
                    \/ /\ cmd.data.function.body = "change_directory"
                       /\ Bind(cmd.data.function, pr.kwargs).kwargs[s_path].t # "str"

\* the step is the cycle of line l
IsCycleOf(l, raises) ==
    /\ state = "Prompting"
    /\ LET r == Cycle(cmds, path, l, raises)
       IN  <<entry', out', calls', state', path'>>
             = <<r.entry, r.out, r.calls, r.state, r.path>>

\* C13: a cycle in which the dispatch raises prints exactly one diagnostic
\* line, the one of the REPL, and leaves the loop running, ready to prompt.
\* (A cycle depends on its line through the tokens only, which it leaves in
\* entry: the lines to consider are the one of these tokens and the line
\* that has none.)
C13_FailureIsOneDiagnosticAndLoopGoesOn ==
    [][\A l \in {LineOf(entry'), UnclosedLine}, r \in BOOLEAN :
          (IsCycleOf(l, r) /\ Fails(cmds, path, l, r))
          => /\ Len(out') = 1
             /\ out'[1].kind = "Unexpected"
             /\ state' = "Looping"]_vars

\* a decode error has been caught
C13_Witness ==
    /\ state = "Looping"
    /\ Len(out) = 1
    /\ out[1].kind = "Unexpected"
    /\ entry = <<s_conv, t_pos1, t_5>>


\* the step called the built-in quit command
QuitCalled == Len(calls') = 1 /\ calls'[1].func = s_leave

\* the step took the interrupt at the prompt: no line was read, nothing ran
InterruptTaken == state = "Prompting" /\ UNCHANGED <<input, entry, out, calls, path>>

\* C14: a cycle that calls the built-in quit command ends in Stopped; a step
\* into Stopped is a call of quit or the interrupt; and nothing happens from
\* Stopped: no prompt, no handler.
C14_StoppedOnlyByQuitOrInterrupt ==
    [][/\ state # "Stopped"
       /\ QuitCalled => state' = "Stopped"
       /\ state' = "Stopped" => (QuitCalled \/ InterruptTaken)]_vars

\* quit was dispatched through its alias
C14_Witness ==
    /\ state = "Stopped"
    /\ entry = <<s_exit>>
    /\ calls = <<Call(F_leave, NoKwargs)>>


\* the line splits into tokens that resolve to no command
Unresolved(table, l) ==
    /\ splitS(l).ok
    /\ \/ splitS(l).tokens = <<>>
       \/ Lower(splitS(l).tokens[1]) \notin DOMAIN table

\* C15: a cycle whose line resolves to no command starts no handler and
\* goes back to the loop; it prints nothing when the line has no token, and
\* exactly one NotFound diagnostic when its first token, lowercased, is no
\* key of the registry.
C15_UnresolvedLineRunsNothing ==
    [][\A r \in BOOLEAN :
          LET l == LineOf(entry') IN
          (IsCycleOf(l, r) /\ Unresolved(cmds, l))
          => /\ calls' = <<>>
             /\ state' = "Looping"
             /\ IF entry' = <<>> THEN out' = <<>>
                ELSE Len(out') = 1 /\ out'[1] = NotFound(entry'[1])]_vars

C15_Witness ==
    /\ state = "Looping"
    /\ entry = <<s_nope>>
    /\ calls = <<>>
    /\ Len(out) = 1
    /\ out[1].kind = "NotFound"


\* the last token of the entry is the "--name" of a declared Named parameter,
\* the parse reads the tokens before it without stopping and does not take
\* it as the value of the token before it, and every positional is supplied
NamedTokenEndsEntry ==
    /\ Dispatched
    /\ Cmd.isdict
    /\ Len(entry) >= 2
    /\ entry[Len(entry)] \in NamedTokens(Handler)
    /\ entry[Len(entry) - 1] \notin NamedTokens(Handler)
    /\ LET pre == Parse(Cmd, SubSeq(entry, 1, Len(entry) - 1))
       IN  /\ pre.exc = "none"
           /\ ~pre.do
           /\ \A i \in 1..Len(Positionals(Handler)) :
                 Positionals(Handler)[i].name \in DOMAIN pre.kwargs

Builtins ==
    { [name |-> s_help,             alias |-> s_qmark],
      [name |-> s_clear_host,       alias |-> s_clear],
      [name |-> s_leave,            alias |-> s_exit],
      [name |-> s_change_directory, alias |-> s_cd] }

\* name and alias of b resolve to a Record of table
Resolves(table, b) ==
    /\ b.name \in DOMAIN table
    /\ b.alias \in DOMAIN table
    /\ Resolve(table, b.name).isdict
    /\ Resolve(table, b.alias) = Resolve(table, b.name)

\* C17: each built-in command can be disabled on its own before the session
\* accepts input: for each built-in there is a construction after which its
\* name and alias do not resolve and the three others resolve to their records.
C17_EachBuiltinCanBeDisabled ==
    (state = "Setup" /\ nregs = 0) =>
        \A b \in Builtins :
            \E t \in Constructions :
                /\ b.name \notin DOMAIN t
                /\ b.alias \notin DOMAIN t
                /\ \A o \in Builtins \ {b} : Resolves(t, o)


\* the parameters of kind K, in declaration order
OfKind(func, K) == SelectSeq(func.params, LAMBDA q : Kind(q) = K)

\* what follows "Usage: " in a help text
UsageText(info) ==
    LET i == CHOOSE i \in 1..Len(info) :
                 /\ info[i] = "Usage: "
                 /\ \A j \in (i + 1)..Len(info) : info[j] # "Usage: "
    IN  SubSeq(info, i + 1, Len(info))

\* <name> [pos1] [pos2] --namedA --namedB -flagA
SpecUsage(n, func) ==
    n \o Concat(MapSeq(OfKind(func, "Positional"),
                       LAMBDA q : <<" ", "[">> \o q.name \o <<"]">>))
      \o Concat(MapSeq(OfKind(func, "Named"), LAMBDA q : <<" ", "-", "-">> \o q.name))
      \o Concat(MapSeq(OfKind(func, "Flag"), LAMBDA q : <<" ", "-">> \o q.name))

\* C18: the usage line of every record is the canonical name, then the
\* positional placeholders, then the named-parameter tokens, then the flag
\* tokens, each group in declaration order.
C18_UsageListsPositionalNamedFlag ==
    \A k \in DOMAIN cmds :
        cmds[k].isdict =>
            UsageText(cmds[k].data.info) = SpecUsage(k, cmds[k].data.function)


\* what precedes the usage line in a help text
HelpBody(info) == SubSeq(info, 1, Len(info) - Len(UsageText(info)) - 1)

\* sub occurs in s
Contains(s, sub) ==
    \E i \in 0..(Len(s) - Len(sub)) : SubSeq(s, i + 1, i + Len(sub)) = sub

\* C19: the help text of every record holds, before the usage line, the
\* token "-name" of every Flag the handler declares.
C19_HelpListsEveryFlag ==
    \A k \in DOMAIN cmds :
        cmds[k].isdict =>
            \A i \in 1..Len(OfKind(cmds[k].data.function, "Flag")) :
                Contains(HelpBody(cmds[k].data.info),
                         <<"-">> \o OfKind(cmds[k].data.function, "Flag")[i].name)


\* C20: the help text of every record holds the documentation string, the
\* name of every positional parameter, and the "--name" token and the default
\* value of every named parameter; for doc "D", a positional n and a named
\* k = 1 it holds "D", "n", "--k" and "1".
C20_HelpHoldsDocNamesAndDefaults ==
    \A key \in DOMAIN cmds :
        cmds[key].isdict =>
            LET data == cmds[key].data
                func == data.function
                body == HelpBody(data.info)
            IN  /\ Contains(body, ListOf(data, "doc"))
                /\ \A i \in 1..Len(OfKind(func, "Positional")) :
                      Contains(body, OfKind(func, "Positional")[i].name)
                /\ \A i \in 1..Len(OfKind(func, "Named")) :
                      LET q == OfKind(func, "Named")[i]
                      IN  /\ Contains(body, <<"-", "-">> \o q.name)
                          /\ Contains(body, <<" = ">> \o ValueText(q.default))
                /\ ( /\ ListOf(data, "doc") = <<"D">>
                     /\ func.params = <<Param(s_n, Empty, NoDefault),
                                        Param(s_k, Class("int"), IntV(1))>> )
                   => /\ Contains(data.info, <<"D">>)
                      /\ Contains(data.info, <<"n">>)
                      /\ Contains(data.info, <<"-", "-", "k">>)
                      /\ Contains(data.info, <<"1">>)

\* gen(n, k: int = 1) is registered with doc "D"
C20_Witness ==
    /\ s_gen \in DOMAIN cmds
    /\ cmds[s_gen].isdict
    /\ ListOf(cmds[s_gen].data, "doc") = <<"D">>
    /\ cmds[s_gen].data.function.params
         = <<Param(s_n, Empty, NoDefault), Param(s_k, Class("int"), IntV(1))>>
    /\ Contains(cmds[s_gen].data.info, <<"-", "-", "k", ": ", "int", " = ", "1">>)


----------------------------------------------------------------------------
(* C21..C30 *)

Blanks == { " ", "\t", "\r", "\n" }
QuoteChars == { "'", "\"" }

Chars(s) == { s[i] : i \in 1..Len(s) }

\* the cycle of the line in input has run
CycleRan == state = "Looping" /\ (input # <<>> \/ entry = <<>>)

\* input is u q v q w with q a quote character that v does not hold, u
\* without quote characters, and blanks (or nothing) around the quoted span
QuotedSpan(i, j) ==
    /\ i < j
    /\ input[i] \in QuoteChars
    /\ input[j] = input[i]
    /\ input[i] \notin Chars(SubSeq(input, i + 1, j - 1))
    /\ Chars(SubSeq(input, 1, i - 1)) \cap QuoteChars = {}
    /\ (i > 1 => input[i - 1] \in Blanks)
    /\ (j < Len(input) => input[j + 1] \in Blanks)

\* C21: the tokens of a line are its words between blanks, a span between
\* two single or two double quotes being one token without the quotes:
\* foo "bar baz" qux gives foo, bar baz, qux; a line of blanks, or empty,
\* gives no token.
C21_TokensAreWordsAndQuotedSpans ==
    CycleRan =>
        /\ input = QuotedExample =>
              entry = << <<"f","o","o">>, <<"b","a","r"," ","b","a","z">>,
                         <<"q","u","x">> >>
        /\ Chars(input) \subseteq Blanks => (entry = <<>> /\ out = <<>>)
        /\ (input # <<>> /\ Chars(input) \cap (Blanks \cup QuoteChars) = {})
              => entry = <<input>>
        /\ \A i \in 1..Len(input) :
              (input[i] \in Blanks /\ Chars(input) \cap QuoteChars = {})
              => entry = splitS(SubSeq(input, 1, i - 1)).tokens
                           \o splitS(SubSeq(input, i + 1, Len(input))).tokens
        /\ \A i, j \in 1..Len(input) :
              (QuotedSpan(i, j) /\ splitS(SubSeq(input, j + 1, Len(input))).ok)
              => entry = splitS(SubSeq(input, 1, i - 1)).tokens
                           \o <<SubSeq(input, i + 1, j - 1)>>
                           \o splitS(SubSeq(input, j + 1, Len(input))).tokens

\* a line with a quoted span that holds a blank has been split
C21_Witness ==
    /\ CycleRan
    /\ input = <<"a", "\t", "'", "a", " ", "a", "'">>
    /\ entry = << <<"a">>, <<"a", " ", "a">> >>


\* the step is the registration (n, al, f)
IsRegistration(n, al, f) ==
    /\ state = "Setup"
    /\ nregs' = nregs + 1
    /\ cmds' = Registered(cmds, n, <<>>, al, f)

\* the name lowercased, with an underscore for every space
SpecCanonical(n) ==
    [i \in 1..Len(n) |-> IF n[i] = " " THEN "_" ELSE LowerChar(n[i])]

\* the key a registration (n, f) is made under
KeyOf(n, f) == SpecCanonical(IF n # <<>> THEN n ELSE f.name)

\* C22: a registration under a canonical name that holds a Record leaves one
\* Record under that name, of the latest handler, with the latest aliases and
\* a help text rebuilt from them; the name resolves to the latest handler.
C22_ReRegistrationOverwrites ==
    [][\A n \in RegNames, al \in RegAliases, f \in RegFuncs :
          ( /\ IsRegistration(n, al, f)
            /\ KeyOf(n, f) \in DOMAIN cmds
            /\ cmds[KeyOf(n, f)].isdict )
          => /\ cmds'[KeyOf(n, f)].isdict
             /\ cmds'[KeyOf(n, f)].data.function = f
             /\ ListOf(cmds'[KeyOf(n, f)].data, "alias") = MapSeq(al, Lower)
             /\ cmds'[KeyOf(n, f)].data.info
                  = Info(KeyOf(n, f), DataOf(f, f.doc, al))
             /\ Resolve(cmds', KeyOf(n, f)).data.function = f]_vars


\* the names given to CLI.command: by the using program, and by CLI.__init__
GivenNames == RegNames \cup { <<>>, s_clear_host }

\* C23: every key of the registry that holds a Record is the name of a
\* registration of the Record's handler (the name given, or else the
\* handler's own) lowercased with an underscore for every space; it holds
\* no uppercase letter and no space.
C23_RecordKeysAreCanonical ==
    \A k \in DOMAIN cmds :
        cmds[k].isdict =>
            /\ \A i \in 1..Len(k) :
                  k[i] # " " /\ ~(\E j \in 1..26 : UpperAlpha[j] = k[i])
            /\ \E n \in GivenNames : k = KeyOf(n, cmds[k].data.function)

\* a handler is registered under the name "Say Hi"
C23_Witness ==
    /\ <<"s","a","y","_","h","i">> \in DOMAIN cmds
    /\ cmds[<<"s","a","y","_","h","i">>].isdict
    /\ nregs > 0


\* the entry is the built-in change-directory command, typed by its name or
\* by its alias, without a path token
ChangeDirectoryAlone ==
    /\ Dispatched
    /\ Len(entry) = 1
    /\ Lower(entry[1]) \in {s_change_directory, s_cd}
    /\ Cmd.isdict
    /\ Handler.body = "change_directory"

\* C24: change-directory without a path token prints no diagnostic and
\* starts the handler exactly once; the dispatcher leaves path absent, the
\* handler's optional mechanism fills it with the home path, and the working
\* path becomes the home path.
C24_ChangeDirectoryDefaultsToHome ==
    ChangeDirectoryAlone =>
        /\ out = <<>>
        /\ Len(calls) = 1
        /\ Parse(Cmd, entry).kwargs = NoKwargs
        /\ calls[1].kwargs[s_path] = StrV(Home)
        /\ path = Home


\* the step called change_directory with the path p, a str
ChangeDirectoryCalled(p) ==
    /\ Len(calls') = 1
    /\ calls'[1].func = s_change_directory
    /\ calls'[1].kwargs[s_path] = StrV(p)

\* p is an existing directory, relative to the working path or as given
PassesCheck(p) == IsDir(PathJoin(path, p)) \/ IsDir(p)

\* the paths that PassesCheck accepts from the working path, normalised
Checked(p) ==
    IF IsDir(PathJoin(path, p)) THEN NormPath(PathJoin(path, p)) ELSE NormPath(p)

\* C28: the working path changes only in a call of change_directory, and only
\* to a path that passed the directory check; a call with a path that does
\* not pass leaves it unchanged and prints exactly "The path is invalid.";
\* so the working path is always the home path or an existing directory.
C28_WorkingPathIsHomeOrCheckedDirectory ==
    [][/\ path' # path =>
             \E p \in {calls'[i].kwargs[s_path].s : i \in {j \in 1..Len(calls') :
                          calls'[j].func = s_change_directory}} :
                 ChangeDirectoryCalled(p) /\ PassesCheck(p) /\ path' = Checked(p)
       /\ \A p \in {calls'[i].kwargs[s_path].s : i \in {j \in 1..Len(calls') :
                          calls'[j].func = s_change_directory}} :
             (ChangeDirectoryCalled(p) /\ ~PassesCheck(p))
             => (path' = path /\ out' = <<InvalidPath>>)
       /\ (path' = Home \/ IsDir(path'))]_vars


RECURSIVE PlainTokens(_, _, _)
\* the tokens from position i on that do not start with "-" and are not the
\* value that follows the "--name" token of a declared Named parameter
PlainTokens(func, tokens, i) ==
    IF i > Len(tokens) THEN <<>>
    ELSE IF tokens[i] \in NamedTokens(func) THEN PlainTokens(func, tokens, i + 2)
    ELSE IF StartsWith(tokens[i], <<"-">>) THEN PlainTokens(func, tokens, i + 1)
    ELSE <<tokens[i]>> \o PlainTokens(func, tokens, i + 1)

\* C25: the handler a dispatch starts gets the i-th plain token of the entry,
\* decoded, as its i-th positional parameter, however flag and named tokens
\* stand between the plain tokens.
C25_PlainTokensFillPositionalsInOrder ==
    (Dispatched /\ Cmd.isdict /\ Len(calls) = 1) =>
        LET plain == PlainTokens(Handler, entry, 2)
            ps    == Positionals(Handler)
        IN  /\ Len(plain) <= Len(ps)
            /\ \A i \in 1..Len(plain) :
                  calls[1].kwargs[ps[i].name] = SpecDecode(ps[i].ann, plain[i]).val


\* C26: a registration leaves every Record of another canonical name in
\* place: the key still holds the same Record, so the name still resolves
\* to it.
C26_OtherRecordsStay ==
    [][\A n \in RegNames, al \in RegAliases, f \in RegFuncs :
          IsRegistration(n, al, f)
          => \A k \in DOMAIN cmds :
                (cmds[k].isdict /\ k # KeyOf(n, f))
                => /\ cmds'[k] = cmds[k]
                   /\ Resolve(cmds', k) = cmds[k]]_vars

\* C27: every alias entry is listed in the alias set of the Record it points
\* at: a key k that holds AliasOf(n) is one of the aliases of the Record
\* under n, also after n was registered again with other aliases.
C27_AliasEntriesAreListedInRecord ==
    \A k \in DOMAIN cmds :
        ~cmds[k].isdict =>
            /\ cmds[k].name \in DOMAIN cmds
            /\ cmds[cmds[k].name].isdict
            /\ \E i \in 1..Len(ListOf(cmds[cmds[k].name].data, "alias")) :
                  cmds[cmds[k].name].data.alias[i] = k


\* the threads that are executing __run: started, and neither returned nor
\* ended by an exception
InRun == { w \in 1..Len(wpc) : wpc[w].pc \in {"while", "for", "pop", "call", "exit"} }

\* the tasks still in the task table
Pending ==
    ({tasks.rename, tasks.move} \ {NoTask})
    \cup { tasks.write[i] : i \in 1..Len(tasks.write) }

\* no thread of the File has a step to take: the scheduling thread is
\* between two calls and every worker returned or was ended by an exception
Quiescent ==
    /\ mpc.pc = "idle"
    /\ \A w \in 1..Len(wpc) : wpc[w].pc \in {"finished", "dead"}

\* C29: at most one thread executes __run at any time, no task is executed
\* twice, and no worker pops from an empty write list.
C29_OneWorkerAtATime ==
    /\ Cardinality(InRun) <= 1
    /\ \A i, j \in 1..Len(done) : done[i].id = done[j].id => i = j
    /\ \A w \in 1..Len(wpc) : wpc[w].err # "IndexError"

\* C30: a scheduled task does not stay in the task table once the threads
\* have nothing left to do: when the scheduling thread is between two calls
\* and every worker has ended, no write, rename or move is pending (so every
\* such task is executed without a later scheduling call).
C30_NoTaskLeftBehind ==
    Quiescent => \A t \in Pending : t.func = "clear"

=============================================================================
